---- MODULE Spec2Model ----
(***************************************************************************)
(* Model of the two scripts of the repository:                             *)
(*   latihan_mandiri.py  - RegistrationService and its validation rules    *)
(*   kode11.py           - Order, CheckoutService and the demo program     *)
(* Each method is followed statement by statement: the position inside     *)
(* RegistrationService.validate is reg_pc, the position inside             *)
(* CheckoutService.run_checkout is pc.                                     *)
(***************************************************************************)
EXTENDS Integers, Sequences, FiniteSets, TLC

VARIABLES
    \* ---- latihan_mandiri.py ----
    rules,      \* RegistrationService.rules, the injected list of rules
    data,       \* the dict passed to RegistrationService.validate
    reg_pc,     \* position inside RegistrationService.validate
    rule_idx,   \* number of rules the for loop has already taken
    calls,      \* per rule position: how often its validate was invoked
    call_log,   \* the invocations in order: position and returned value
    result,     \* <<>> while no call has returned, else <<returned value>>
    \* ---- kode11.py ----
    orders,     \* the Order objects created so far (position = identity)
    pc,         \* position inside CheckoutService.run_checkout
    frame,      \* the running call: processor, order, payment_success
    events,     \* process/send invocations of the running (or last) call,
                \* each with the order as the callee found it
    returned,   \* <<>> or <<value returned by the last run_checkout>>
    paid_by,    \* per order: number of process calls that returned True
    checkouts,  \* per order: number of run_checkout calls started on it
    main,       \* 0: calls come from an arbitrary caller; else line of the demo
    env         \* the demo's variables andi_order and budi_order

reg_vars == <<rules, data, reg_pc, rule_idx, calls, call_log, result>>
co_vars  == <<orders, pc, frame, events, returned, paid_by, checkouts, main, env>>
vars     == <<rules, data, reg_pc, rule_idx, calls, call_log, result,
              orders, pc, frame, events, returned, paid_by, checkouts, main, env>>

(***************************************************************************)
(* Bounds                                                                  *)
(***************************************************************************)
MaxRules == 3
SksRange == 1
MaxOrders == 2
MaxCalls == 3

(***************************************************************************)
(* latihan_mandiri.py                                                      *)
(***************************************************************************)
SksValues == (0 - SksRange)..SksRange

Keys == {"total_sks", "prasyarat_ok", "jadwal_bentrok"}

\* every dict carrying any subset of the three keys, integer total_sks and
\* boolean flags
DataSet ==
    UNION { { [k \in K |-> IF k = "total_sks" THEN s
                           ELSE IF k = "prasyarat_ok" THEN p ELSE j]
              : s \in SksValues, p \in BOOLEAN, j \in BOOLEAN }
            : K \in SUBSET Keys }

\* dict.get(key, default)
Get(d, key, default) == IF key \in DOMAIN d THEN d[key] ELSE default

SksLimitRule(max_sks) == [kind |-> "SksLimitRule", max_sks |-> max_sks]
PrerequisiteRule == [kind |-> "PrerequisiteRule"]
JadwalBentrokRule == [kind |-> "JadwalBentrokRule"]

RuleSet == { SksLimitRule(m) : m \in SksValues }
              \cup {PrerequisiteRule, JadwalBentrokRule}

RuleLists == UNION { [1..n -> RuleSet] : n \in 0..MaxRules }

\* variant: the comparison written >= instead of >
SksLimitRule_validate_ge(self, d) ==
    LET total_sks == Get(d, "total_sks", 0)
    IN  IF total_sks >= self.max_sks THEN FALSE ELSE TRUE

SksLimitRule_validate(self, d) ==
    LET total_sks == Get(d, "total_sks", 0)
    IN  IF total_sks > self.max_sks THEN FALSE ELSE TRUE

\* variant: the default of a missing prasyarat_ok written True
PrerequisiteRule_validate_default_true(self, d) ==
    LET prasyarat_ok == Get(d, "prasyarat_ok", TRUE)
    IN  IF ~prasyarat_ok THEN FALSE ELSE TRUE

PrerequisiteRule_validate(self, d) ==
    LET prasyarat_ok == Get(d, "prasyarat_ok", FALSE)
    IN  IF ~prasyarat_ok THEN FALSE ELSE TRUE

\* variant: the flag passed through without the inversion
JadwalBentrokRule_validate_passthrough(self, d) ==
    LET bentrok == Get(d, "jadwal_bentrok", FALSE)
    IN  IF bentrok THEN TRUE ELSE FALSE

JadwalBentrokRule_validate(self, d) ==
    LET bentrok == Get(d, "jadwal_bentrok", FALSE)
    IN  IF bentrok THEN FALSE ELSE TRUE

\* rule.validate(data): dispatch on the class of the rule
validate(rule, d) ==
    CASE rule.kind = "SksLimitRule"      -> SksLimitRule_validate(rule, d)
      [] rule.kind = "PrerequisiteRule"  -> PrerequisiteRule_validate(rule, d)
      [] rule.kind = "JadwalBentrokRule" -> JadwalBentrokRule_validate(rule, d)

\* RegistrationService(rules): any list of rules may be injected
RegInit ==
    /\ rules \in RuleLists
    /\ data = [k \in {} |-> 0]
    /\ reg_pc = "idle"
    /\ rule_idx = 0
    /\ calls = [i \in 1..Len(rules) |-> 0]
    /\ call_log = <<>>
    /\ result = <<>>

\* service.validate(data) is entered: line 147
Validate_enter ==
    /\ reg_pc = "idle"
    /\ \E d \in DataSet : data' = d
    /\ reg_pc' = "for"
    /\ rule_idx' = 0
    /\ calls' = [i \in 1..Len(rules) |-> 0]
    /\ call_log' = <<>>
    /\ result' = <<>>
    /\ UNCHANGED rules
    /\ UNCHANGED co_vars

\* variant: the loop does not stop at a failing rule
AfterRule_ignore(ok) == "for"

\* variant: the "not" of the test is missing
AfterRule_inverted(ok) == IF ok THEN "failed" ELSE "for"

\* line 150: if not rule.validate(data) -> lines 151-152, else next rule
AfterRule(ok) == IF ~ok THEN "failed" ELSE "for"

\* one iteration of "for rule in self.rules: if not rule.validate(data)"
Validate_rule ==
    /\ reg_pc = "for"
    /\ rule_idx < Len(rules)
    /\ LET i  == rule_idx + 1
           ok == validate(rules[i], data)
       IN  /\ rule_idx' = i
           /\ calls' = [calls EXCEPT ![i] = @ + 1]
           /\ call_log' = Append(call_log, [rule |-> i, ok |-> ok])
           /\ reg_pc' = AfterRule(ok)
    /\ UNCHANGED <<rules, data, result>>
    /\ UNCHANGED co_vars

\* lines 151-152: log the error, return False
Validate_return_false ==
    /\ reg_pc = "failed"
    /\ result' = <<FALSE>>
    /\ reg_pc' = "idle"
    /\ UNCHANGED <<rules, data, rule_idx, calls, call_log>>
    /\ UNCHANGED co_vars

\* lines 154-155: the loop is exhausted, return True
Validate_return_true ==
    /\ reg_pc = "for"
    /\ rule_idx = Len(rules)
    /\ result' = <<TRUE>>
    /\ reg_pc' = "idle"
    /\ UNCHANGED <<rules, data, rule_idx, calls, call_log>>
    /\ UNCHANGED co_vars

(***************************************************************************)
(* kode11.py                                                               *)
(***************************************************************************)
Names == {"Andi", "Budi"}
Prices == {100000, 500000}

\* @dataclass Order: status defaults to "open"
Order(customer_name, total_price) ==
    [customer_name |-> customer_name, total_price |-> total_price,
     status |-> "open"]

\* the classes a CheckoutService can be given as payment_processor;
\* IPaymentProcessor stands for any other implementation of the contract
Processors == {"CreditCardProcessor", "QrisProcessor", "IPaymentProcessor"}

\* variant: the processor reports a failure
CreditCardProcessor_process_fails(o) == {FALSE}

\* the values process(order) can return: line 57
CreditCardProcessor_process(o) == {TRUE}

QrisProcessor_process(o) == {TRUE}

IPaymentProcessor_process(o) == BOOLEAN

process(p, o) ==
    CASE p = "CreditCardProcessor" -> CreditCardProcessor_process(o)
      [] p = "QrisProcessor"       -> QrisProcessor_process(o)
      [] p = "IPaymentProcessor"   -> IPaymentProcessor_process(o)

NoFrame == [processor |-> "none", order |-> 0, payment_success |-> FALSE]

CoInit ==
    /\ orders = <<>>
    /\ pc = "idle"
    /\ frame = NoFrame
    /\ events = <<>>
    /\ returned = <<>>
    /\ paid_by = <<>>
    /\ checkouts = <<>>
    /\ main \in {0, 109}
    /\ env = [andi_order |-> 0, budi_order |-> 0]

RECURSIVE Sum(_)
Sum(seq) == IF seq = <<>> THEN 0 ELSE Head(seq) + Sum(Tail(seq))

\* entry of run_checkout(order) on a service holding processor p: line 94
Enter(p, o) ==
    /\ pc' = "process"
    /\ frame' = [processor |-> p, order |-> o, payment_success |-> FALSE]
    /\ events' = <<>>
    /\ returned' = <<>>
    /\ checkouts' = [checkouts EXCEPT ![o] = @ + 1]
    /\ UNCHANGED <<orders, paid_by>>

\* an arbitrary caller constructs an Order
NewOrder ==
    /\ main = 0
    /\ pc = "idle"
    /\ Len(orders) < MaxOrders
    /\ \E n \in Names, t \in Prices :
          orders' = Append(orders, Order(n, t))
    /\ paid_by' = Append(paid_by, 0)
    /\ checkouts' = Append(checkouts, 0)
    /\ UNCHANGED <<pc, frame, events, returned, main, env>>
    /\ UNCHANGED reg_vars

\* an arbitrary caller builds CheckoutService(p, notifier) and calls
\* run_checkout on one of its orders
Call ==
    /\ main = 0
    /\ pc = "idle"
    /\ Sum(checkouts) < MaxCalls
    /\ \E p \in Processors, o \in 1..Len(orders) : Enter(p, o)
    /\ UNCHANGED <<main, env>>
    /\ UNCHANGED reg_vars

\* line 95: payment_success = self.payment_processor.process(order)
Process ==
    /\ pc = "process"
    /\ \E b \in process(frame.processor, orders[frame.order]) :
          /\ frame' = [frame EXCEPT !.payment_success = b]
          /\ paid_by' = [paid_by EXCEPT ![frame.order] = IF b THEN @ + 1 ELSE @]
    /\ events' = Append(events, [call |-> "process",
                                 order |-> orders[frame.order]])
    /\ pc' = "if"
    /\ UNCHANGED <<orders, returned, checkouts, main, env>>
    /\ UNCHANGED reg_vars

\* variant: the two branches swapped
Branch_inverted(payment_success) ==
    IF payment_success THEN "log_error" ELSE "set_paid"

\* variant: the notifier is called without the status being set before
Branch_skips_status(payment_success) ==
    IF payment_success THEN "send" ELSE "log_error"

\* line 97: if payment_success
Branch(payment_success) ==
    IF payment_success THEN "set_paid" ELSE "log_error"

If ==
    /\ pc = "if"
    /\ pc' = Branch(frame.payment_success)
    /\ UNCHANGED <<orders, frame, events, returned, paid_by, checkouts, main, env>>
    /\ UNCHANGED reg_vars

\* line 98: order.status = "paid"
SetPaid ==
    /\ pc = "set_paid"
    /\ orders' = [orders EXCEPT ![frame.order].status = "paid"]
    /\ pc' = "send"
    /\ UNCHANGED <<frame, events, returned, paid_by, checkouts, main, env>>
    /\ UNCHANGED reg_vars

\* variant: the notifier is not called
Send_skipped ==
    /\ pc = "send"
    /\ pc' = "log_ok"
    /\ UNCHANGED <<orders, frame, events, returned, paid_by, checkouts, main, env>>
    /\ UNCHANGED reg_vars

\* line 99: self.notifier.send(order); the notifier reads the order
Send ==
    /\ pc = "send"
    /\ events' = Append(events, [call |-> "send",
                                 order |-> orders[frame.order]])
    /\ pc' = "log_ok"
    /\ UNCHANGED <<orders, frame, returned, paid_by, checkouts, main, env>>
    /\ UNCHANGED reg_vars

\* lines 100-101: log, return True
ReturnTrue ==
    /\ pc = "log_ok"
    /\ returned' = <<TRUE>>
    /\ pc' = "idle"
    /\ UNCHANGED <<orders, frame, events, paid_by, checkouts, main, env>>
    /\ UNCHANGED reg_vars

\* variant: a failed payment puts the order back to "open"
ReturnFalse_reopens ==
    /\ pc = "log_error"
    /\ orders' = [orders EXCEPT ![frame.order].status = "open"]
    /\ returned' = <<FALSE>>
    /\ pc' = "idle"
    /\ UNCHANGED <<frame, events, paid_by, checkouts, main, env>>
    /\ UNCHANGED reg_vars

\* lines 104-105: log the error, return False
ReturnFalse ==
    /\ pc = "log_error"
    /\ returned' = <<FALSE>>
    /\ pc' = "idle"
    /\ UNCHANGED <<orders, frame, events, paid_by, checkouts, main, env>>
    /\ UNCHANGED reg_vars

\* the module-level statements of kode11.py that act on orders, by line
\* number, each with the statement that follows it; 159 is the end of the
\* script
DemoNext(line) ==
    CASE line = 109 -> 116 [] line = 116 -> 124
      [] line = 124 -> 130 [] line = 130 -> 134
      [] line = 134 -> 142 [] line = 142 -> 151
      [] line = 151 -> 158 [] line = 158 -> 159

\* lines 109, 134: andi_order = Order("Andi", 500000)
\* lines 124, 151: budi_order = Order("Budi", 100000)
DemoOrder ==
    /\ main \in {109, 124, 134, 151}
    /\ pc = "idle"
    /\ orders' = Append(orders, IF main \in {109, 134}
                                THEN Order("Andi", 500000)
                                ELSE Order("Budi", 100000))
    /\ paid_by' = Append(paid_by, 0)
    /\ env' = IF main \in {109, 134}
              THEN [env EXCEPT !.andi_order = Len(orders) + 1]
              ELSE [env EXCEPT !.budi_order = Len(orders) + 1]
    /\ checkouts' = Append(checkouts, 0)
    /\ main' = DemoNext(main)
    /\ UNCHANGED <<pc, frame, events, returned>>
    /\ UNCHANGED reg_vars

\* lines 116, 142: checkout_cc.run_checkout(andi_order)
\* lines 130, 158: checkout_qris.run_checkout(budi_order)
DemoCheckout ==
    /\ main \in {116, 130, 142, 158}
    /\ pc = "idle"
    /\ IF main \in {116, 142}
       THEN Enter("CreditCardProcessor", env.andi_order)
       ELSE Enter("QrisProcessor", env.budi_order)
    /\ main' = DemoNext(main)
    /\ UNCHANGED env
    /\ UNCHANGED reg_vars

(***************************************************************************)
(* Specifications                                                          *)
(***************************************************************************)
RegIdle ==
    /\ rules = <<>>
    /\ data = [k \in {} |-> 0]
    /\ reg_pc = "idle"
    /\ rule_idx = 0
    /\ calls = <<>>
    /\ call_log = <<>>
    /\ result = <<>>

CoIdle ==
    /\ orders = <<>>
    /\ pc = "idle"
    /\ frame = NoFrame
    /\ events = <<>>
    /\ returned = <<>>
    /\ paid_by = <<>>
    /\ checkouts = <<>>
    /\ main = 0
    /\ env = [andi_order |-> 0, budi_order |-> 0]

RegNext ==
    \/ Validate_enter
    \/ Validate_rule
    \/ Validate_return_false
    \/ Validate_return_true

CoNext ==
    \/ NewOrder
    \/ Call
    \/ Process
    \/ If
    \/ SetPaid
    \/ Send
    \/ ReturnTrue
    \/ ReturnFalse
    \/ DemoOrder
    \/ DemoCheckout

\* latihan_mandiri.py alone
RegStart == RegInit /\ CoIdle

RegSpec == RegStart /\ [][RegNext]_vars

\* kode11.py alone
CoStart == CoInit /\ RegIdle

CoSpec == CoStart /\ [][CoNext]_vars

(***************************************************************************)
(* Properties of latihan_mandiri.py, checked under RegSpec                 *)
(***************************************************************************)
\* a call of RegistrationService.validate has returned
RegReturned == reg_pc = "idle" /\ result # <<>>

AllRulesPass == \A i \in 1..Len(rules) : validate(rules[i], data)

\* the positions of the rules that fail on the data of the call
Failing == { i \in 1..Len(rules) : ~validate(rules[i], data) }

FirstFailing == CHOOSE i \in Failing : \A j \in Failing : i <= j

\* C1: RegistrationService.validate returns True if and only if every rule
\* of the list (the empty list included) returns True on the data, and
\* False exactly when at least one rule returns False.
C1_TrueIffEveryRulePasses ==
    RegReturned =>
        /\ result[1] = TRUE <=> AllRulesPass
        /\ result[1] = FALSE <=> Failing # {}

\* a list of three different rules that all pass has returned True
C1_Witness ==
    /\ RegReturned
    /\ rules = <<SksLimitRule(1), PrerequisiteRule, JadwalBentrokRule>>
    /\ data = [total_sks |-> 0, prasyarat_ok |-> TRUE, jadwal_bentrok |-> FALSE]
    /\ result = <<TRUE>>

\* C2: during one call the rules are invoked in list order, each at most
\* once; nothing is invoked after a rule returned False; when the call has
\* returned, every rule up to and including the first failing one was
\* invoked exactly once and every rule after it was never invoked.
C2_InOrderUntilFirstFailure ==
    /\ \A k \in 1..Len(call_log) : call_log[k].rule = k
    /\ \A k \in 1..Len(call_log) : k < Len(call_log) => call_log[k].ok
    /\ \A i \in 1..Len(rules) : calls[i] = IF i <= Len(call_log) THEN 1 ELSE 0
    /\ RegReturned =>
          LET last == IF Failing = {} THEN Len(rules) ELSE FirstFailing
          IN  /\ Len(call_log) = last
              /\ \A i \in 1..Len(rules) : calls[i] = IF i <= last THEN 1 ELSE 0

\* the second of three rules failed: the first and second were invoked once,
\* the third, which would have failed too, never
C2_Witness ==
    /\ RegReturned
    /\ Len(rules) = 3
    /\ Failing = {2, 3}
    /\ calls = <<1, 1, 0>>
    /\ result = <<FALSE>>

\* C5: SksLimitRule(max_sks).validate(data) returns False if and only if
\* the total_sks of data is greater than max_sks; total_sks = max_sks passes.
C5_SksFalseIffAboveLimit ==
    \A k \in 1..Len(call_log) :
        LET rule == rules[call_log[k].rule]
        IN  (rule.kind = "SksLimitRule" /\ "total_sks" \in DOMAIN data) =>
               /\ call_log[k].ok = FALSE <=> data["total_sks"] > rule.max_sks
               /\ data["total_sks"] = rule.max_sks => call_log[k].ok = TRUE

\* the boundary: a rule invoked with total_sks equal to its max_sks passed
C5_Witness ==
    \E k \in 1..Len(call_log) :
        LET rule == rules[call_log[k].rule]
        IN  /\ rule.kind = "SksLimitRule"
            /\ "total_sks" \in DOMAIN data
            /\ data["total_sks"] = rule.max_sks
            /\ call_log[k].ok = TRUE

\* C6: PrerequisiteRule.validate returns the prasyarat_ok flag of the data,
\* JadwalBentrokRule.validate the negation of its jadwal_bentrok flag.
C6_FlagsPassThrough ==
    \A k \in 1..Len(call_log) :
        LET rule == rules[call_log[k].rule]
        IN  /\ (rule.kind = "PrerequisiteRule" /\ "prasyarat_ok" \in DOMAIN data)
                  => call_log[k].ok = data["prasyarat_ok"]
            /\ (rule.kind = "JadwalBentrokRule" /\ "jadwal_bentrok" \in DOMAIN data)
                  => call_log[k].ok = ~data["jadwal_bentrok"]

\* both rules were invoked on data carrying both flags set: the first
\* passed, the second failed
C6_Witness ==
    /\ rules = <<PrerequisiteRule, JadwalBentrokRule>>
    /\ "prasyarat_ok" \in DOMAIN data /\ data["prasyarat_ok"] = TRUE
    /\ "jadwal_bentrok" \in DOMAIN data /\ data["jadwal_bentrok"] = TRUE
    /\ Len(call_log) = 2
    /\ call_log[1].ok = TRUE
    /\ call_log[2].ok = FALSE

\* C10: on data lacking a key the rules use total_sks = 0,
\* prasyarat_ok = False, jadwal_bentrok = False: SksLimitRule passes iff
\* max_sks >= 0, PrerequisiteRule fails, JadwalBentrokRule passes; and a
\* service whose list contains a PrerequisiteRule returns False for data
\* lacking prasyarat_ok.
C10_DefaultsOfMissingKeys ==
    /\ \A k \in 1..Len(call_log) :
          LET rule == rules[call_log[k].rule]
          IN  /\ (rule.kind = "SksLimitRule" /\ "total_sks" \notin DOMAIN data)
                    => (call_log[k].ok <=> rule.max_sks >= 0)
              /\ (rule.kind = "PrerequisiteRule" /\ "prasyarat_ok" \notin DOMAIN data)
                    => call_log[k].ok = FALSE
              /\ (rule.kind = "JadwalBentrokRule" /\ "jadwal_bentrok" \notin DOMAIN data)
                    => call_log[k].ok = TRUE
    /\ (/\ RegReturned
        /\ "prasyarat_ok" \notin DOMAIN data
        /\ \E i \in 1..Len(rules) : rules[i].kind = "PrerequisiteRule")
          => result = <<FALSE>>

\* on the empty dict the SKS rule with max_sks = 0 and the schedule rule
\* passed, the prerequisite rule failed and the service returned False
C10_Witness ==
    /\ RegReturned
    /\ DOMAIN data = {}
    /\ rules = <<SksLimitRule(0), JadwalBentrokRule, PrerequisiteRule>>
    /\ call_log = <<[rule |-> 1, ok |-> TRUE], [rule |-> 2, ok |-> TRUE],
                    [rule |-> 3, ok |-> FALSE]>>
    /\ result = <<FALSE>>

(***************************************************************************)
(* Properties of kode11.py, checked under CoSpec                           *)
(***************************************************************************)
\* a call of run_checkout has returned
CoReturned == pc = "idle" /\ returned # <<>>

\* the invocations of one kind among the events of the call
Invocations(call) == { k \in 1..Len(events) : events[k].call = call }

\* the order of the call as it was when run_checkout was entered: nothing
\* runs between the entry and the processor's call
OrderAtEntry == events[1].order

ConcreteProcessors == {"CreditCardProcessor", "QrisProcessor"}

\* C3: when run_checkout is called on an open order and the processor
\* returns true, the status goes from open to paid, send is invoked exactly
\* once, for that order, and run_checkout returns True.
C3_SuccessPaysAndNotifiesOnce ==
    (CoReturned /\ frame.payment_success /\ OrderAtEntry.status = "open") =>
        /\ orders[frame.order].status = "paid"
        /\ Cardinality(Invocations("send")) = 1
        /\ \A k \in Invocations("send") :
              /\ events[k].order.customer_name = orders[frame.order].customer_name
              /\ events[k].order.total_price = orders[frame.order].total_price
        /\ returned = <<TRUE>>

\* a call on an open order whose processor succeeded has returned
C3_Witness ==
    /\ CoReturned
    /\ frame.payment_success
    /\ OrderAtEntry.status = "open"
    /\ orders[frame.order].status = "paid"
    /\ returned = <<TRUE>>

\* C4: when the processor returns false, run_checkout returns False, send
\* is never invoked and the order is as it was at the call.
C4_FailureLeavesOrderUntouched ==
    /\ (pc \in {"if", "log_error"} /\ ~frame.payment_success) =>
          /\ Invocations("send") = {}
          /\ orders[frame.order] = OrderAtEntry
    /\ (CoReturned /\ ~frame.payment_success) =>
          /\ returned = <<FALSE>>
          /\ Invocations("send") = {}
          /\ orders[frame.order] = OrderAtEntry

\* a call on a fresh order whose processor failed has returned
C4_Witness ==
    /\ CoReturned
    /\ ~frame.payment_success
    /\ returned = <<FALSE>>
    /\ checkouts[frame.order] = 1
    /\ orders[frame.order].status = "open"

\* the running call has seen its processor succeed and not yet set the status
Pending(o) ==
    pc \in {"if", "set_paid"} /\ frame.order = o /\ frame.payment_success

\* C7: the status of every order is open or paid; an order is created open;
\* it is paid exactly when a processor has returned true for it; the step
\* from open to paid is taken once, by the first call whose processor
\* returns true; a paid order never becomes open again.
C7_OpenThenPaidOnce ==
    /\ [](\A o \in 1..Len(orders) :
            /\ orders[o].status \in {"open", "paid"}
            /\ ~Pending(o) => (orders[o].status = "paid" <=> paid_by[o] > 0))
    /\ [][/\ \A o \in 1..Len(orders) :
               /\ orders[o].status = "paid" => orders'[o].status = "paid"
               /\ (orders[o].status = "open" /\ orders'[o].status = "paid")
                     => (Pending(o) /\ paid_by[o] = 1)
          /\ \A o \in (Len(orders) + 1)..Len(orders') :
               orders'[o].status = "open"]_vars

\* a failed call on an order that two earlier calls had paid has returned,
\* and the order is still paid
C7_Witness ==
    /\ CoReturned
    /\ returned = <<FALSE>>
    /\ paid_by[frame.order] = 2
    /\ orders[frame.order].status = "paid"

\* C8: CreditCardProcessor and QrisProcessor return true for every order:
\* a run_checkout with either of them never takes the failure branch and
\* returns True, and when the demo of kode11.py has ended every order that
\* was checked out is paid.
C8_ConcreteProcessorsSucceed ==
    /\ (frame.processor \in ConcreteProcessors) =>
          /\ pc # "log_error"
          /\ pc \in {"if", "set_paid", "send", "log_ok"} => frame.payment_success
          /\ CoReturned => returned = <<TRUE>>
    /\ (main = 159 /\ pc = "idle") =>
          \A o \in 1..Len(orders) :
              checkouts[o] > 0 => orders[o].status = "paid"

\* the demo has ended: its four orders were each checked out, the last
\* call returned True
C8_Witness ==
    /\ main = 159
    /\ CoReturned
    /\ returned = <<TRUE>>
    /\ frame.processor = "QrisProcessor"
    /\ checkouts = <<1, 1, 1, 1>>
    /\ \A o \in 1..Len(orders) : orders[o].status = "paid"

\* C9: within one run_checkout the processor is invoked exactly once,
\* before any send, and the order is already paid when send is invoked.
C9_ProcessThenPaidThenSend ==
    /\ Cardinality(Invocations("process")) <= 1
    /\ (pc \notin {"idle", "process"} \/ CoReturned) =>
          Invocations("process") = {1}
    /\ \A k \in Invocations("send") :
          /\ \E j \in Invocations("process") : j < k
          /\ events[k].order.status = "paid"

\* send has just been invoked on an order that was open at the call
C9_Witness ==
    /\ pc = "log_ok"
    /\ Len(events) = 2
    /\ events[1].call = "process" /\ events[1].order.status = "open"
    /\ events[2].call = "send" /\ events[2].order.status = "paid"

====
